---- MODULE Spec2Model ----
(***************************************************************************)
(* The demo CRM service of 02-use-cases/customer-support/pre_build/        *)
(* crm_demo/crm_sample.py: an in-memory store of customers, products and   *)
(* service records behind FastAPI handlers.                                *)
(*                                                                         *)
(* Encoding of Python values:                                              *)
(*   Optional[T]   <<>> for None, <<v>> for a value v                      *)
(*   dict          a sequence of [key, val] entries in insertion order     *)
(*   str           a TLA+ string, except serial numbers and record ids,    *)
(*                 which are sequences of one-character strings so that    *)
(*                 the pattern check and the id formatting are computed    *)
(*   date          <<year, month, day>>                                    *)
(*   datetime      an opaque string (the code only copies it)              *)
(* One request is handled at a time: a handler action takes the request    *)
(* and leaves its response in `response`; Respond hands it to the client.  *)
(* `records_before` is a history variable: the service-record collection   *)
(* as the handler of the request in `request` found it.                    *)
(* SpecConcurrent has several requests in flight on the one store:         *)
(* `inflight` holds, per client, the request, how far the server has got   *)
(* with it, and its response.                                              *)
(***************************************************************************)
EXTENDS Integers, Sequences, FiniteSets, TLC

VARIABLES customers, products, service_records, request, response,
          records_before, inflight

vars == <<customers, products, service_records, request, response,
          records_before, inflight>>

store == <<customers, products, service_records>>

----------------------------------------------------------------------------
(* Bounds of the model *)

\* service records the store may hold (the seed holds 2)
MaxRecords == 3

\* clients with a request in flight at the same time
MaxClients == 2

Clients == 1..MaxClients

----------------------------------------------------------------------------
(* Python values *)

None == <<>>

Some(v) == <<v>>

\* Python truthiness of an Optional[str] argument: None and the empty string
\* (`empty` in the encoding of that string) are falsy.
Truthy(opt, empty) == opt # None /\ opt[1] # empty

\* dict.get(key): Some(value) or None
DictGet(d, k) ==
    IF \E i \in 1..Len(d) : d[i].key = k
    THEN Some(d[CHOOSE i \in 1..Len(d) : d[i].key = k].val)
    ELSE None

\* d[key] = value: an existing key keeps its place, a new key is appended
DictSet(d, k, v) ==
    IF \E i \in 1..Len(d) : d[i].key = k
    THEN [i \in 1..Len(d) |-> IF d[i].key = k THEN [key |-> k, val |-> v] ELSE d[i]]
    ELSE Append(d, [key |-> k, val |-> v])

\* list(d.values())
DictValues(d) == [i \in 1..Len(d) |-> d[i].val]

DictKeys(d) == {d[i].key : i \in 1..Len(d)}

----------------------------------------------------------------------------
(* datetime.date *)

IsLeap(y) == (y % 4 = 0) /\ ((y % 100 # 0) \/ (y % 400 = 0))

DaysInMonth(y, m) ==
    IF m = 2 THEN (IF IsLeap(y) THEN 29 ELSE 28)
    ELSE IF m \in {4, 6, 9, 11} THEN 30 ELSE 31

DaysBeforeYear(y) ==
    (y - 1) * 365 + ((y - 1) \div 4) - ((y - 1) \div 100) + ((y - 1) \div 400)

RECURSIVE DaysBeforeMonth(_, _)
DaysBeforeMonth(y, m) ==
    IF m = 1 THEN 0 ELSE DaysBeforeMonth(y, m - 1) + DaysInMonth(y, m - 1)

\* date.toordinal()
ToOrdinal(d) == DaysBeforeYear(d[1]) + DaysBeforeMonth(d[1], d[2]) + d[3]

\* a < b on dates: by (year, month, day)
DateLt(a, b) ==
    \/ a[1] < b[1]
    \/ a[1] = b[1] /\ a[2] < b[2]
    \/ a[1] = b[1] /\ a[2] = b[2] /\ a[3] < b[3]

\* (a - b).days
DaysBetween(a, b) == ToOrdinal(a) - ToOrdinal(b)

----------------------------------------------------------------------------
(* Characters, the serial-number pattern and the record-id format *)

DigitChar == <<"0", "1", "2", "3", "4", "5", "6", "7", "8", "9">>

UpperChar == {"A", "B", "C", "D", "E", "F", "G", "H", "I", "J", "K", "L", "M",
              "N", "O", "P", "Q", "R", "S", "T", "U", "V", "W", "X", "Y", "Z"}

SerialChars == UpperChar \cup {DigitChar[i] : i \in 1..10}

SerialMinLen == 8

SerialMaxLen == 20

\* the whole of s is [A-Z0-9]{8,20}
MatchesClass(s) ==
    /\ Len(s) >= SerialMinLen
    /\ Len(s) <= SerialMaxLen
    /\ \A i \in 1..Len(s) : s[i] \in SerialChars

\* re.match(r'^[A-Z0-9]{8,20}$', v): `$` matches at the end of the string and
\* also just before a newline that ends it
validate_serial_number(v) ==
    \/ MatchesClass(v)
    \/ /\ Len(v) >= 1
       /\ v[Len(v)] = "\n"
       /\ MatchesClass(SubSeq(v, 1, Len(v) - 1))

\* decimal digits of a natural number
RECURSIVE Digits(_)
Digits(n) ==
    IF n < 10 THEN <<DigitChar[n + 1]>>
    ELSE Digits(n \div 10) \o <<DigitChar[(n % 10) + 1]>>

RECURSIVE ZeroPad(_, _)
ZeroPad(s, width) == IF Len(s) >= width THEN s ELSE ZeroPad(<<"0">> \o s, width)

RecordIdWidth == 3

\* f"SRV{n:03d}"
FormatRecordId(n) == <<"S", "R", "V">> \o ZeroPad(Digits(n), RecordIdWidth)

\* mutant: the id is built from the count, not the count plus one
GenRecordId_NoIncrement(records) == FormatRecordId(Len(records))

\* record_id = f"SRV{len(crm_data.service_records) + 1:03d}"
GenRecordId(records) == FormatRecordId(Len(records) + 1)

\* "SN2024" + four digits
SN(n) == <<"S", "N", "2", "0", "2", "4">> \o ZeroPad(Digits(n), 4)

----------------------------------------------------------------------------
(* Enumerations *)

ServiceStatus == {"scheduled", "completed", "cancelled"}

WarrantyType == {"standard", "extended", "premium"}

----------------------------------------------------------------------------
(* The seed data of CRMData._initialize_sample_data *)

\* Customer(**customer_data). Of a customer the handlers read customer_id,
\* name and email; the other profile fields (address, dates, counters,
\* preferences) are only returned as stored and are left out of the record.
Customer(id, name, email, phone) ==
    [customer_id |-> id, name |-> name, email |-> email, phone |-> phone]

customers_data == <<
    Customer("CUST001", "Zhang Ming", "zhang.ming@example.com", "+86-138-0011-2233"),
    Customer("CUST002", "Li Hua", "li.hua@example.com", "+86-139-0022-3344"),
    Customer("CUST003", "Wang Fang", "wang.fang@example.com", "+86-137-0033-4455"),
    Customer("CUST004", "Chen Qiang", "chen.qiang@example.com", "+86-136-0044-5566"),
    Customer("CUST005", "Liu Ting", "liu.ting@example.com", "+86-135-0055-6677") >>

\* Product(**product_data)
Product(pid, n, name, cust, purchase, warranty_end, wtype, status) ==
    [product_id |-> pid, serial_number |-> SN(n), product_name |-> name,
     customer_id |-> cust, purchase_date |-> purchase,
     warranty_end_date |-> warranty_end, warranty_type |-> wtype,
     status |-> status]

products_data == <<
    Product("PROD001", 1, "Smart TV 65", "CUST001", <<2023, 12, 10>>, <<2025, 12, 10>>, "standard", "active"),
    Product("PROD002", 2, "Smart Speaker Pro", "CUST001", <<2023, 8, 15>>, <<2024, 8, 15>>, "extended", "active"),
    Product("PROD003", 3, "Laptop X1", "CUST002", <<2024, 1, 20>>, <<2025, 1, 20>>, "premium", "active"),
    Product("PROD004", 4, "Tablet T8", "CUST002", <<2023, 11, 5>>, <<2024, 11, 5>>, "standard", "active"),
    Product("PROD005", 5, "Smart Watch S3", "CUST003", <<2023, 9, 18>>, <<2024, 9, 18>>, "standard", "active"),
    Product("PROD006", 6, "Wireless Earbuds E2", "CUST003", <<2023, 6, 22>>, <<2024, 6, 22>>, "standard", "expired"),
    Product("PROD007", 7, "Game Console G5", "CUST004", <<2024, 2, 14>>, <<2025, 2, 14>>, "extended", "active"),
    Product("PROD008", 8, "VR Headset V2", "CUST004", <<2023, 10, 30>>, <<2024, 10, 30>>, "standard", "active"),
    Product("PROD009", 9, "Digital Camera C9", "CUST005", <<2023, 7, 8>>, <<2024, 7, 8>>, "standard", "active"),
    Product("PROD010", 10, "Printer P3", "CUST005", <<2023, 4, 12>>, <<2024, 4, 12>>, "extended", "active") >>

\* ServiceRecord(...)
ServiceRecord(id, serial, cust, date, type, descr, tech, status, est, act, notes) ==
    [record_id |-> id, serial_number |-> serial, customer_id |-> cust,
     service_date |-> date, service_type |-> type, description |-> descr,
     technician |-> tech, status |-> status, estimated_duration |-> est,
     actual_duration |-> act, notes |-> notes]

service_records_data == <<
    ServiceRecord(FormatRecordId(1), SN(1), "CUST001", "2024-01-15T10:00",
                  "screen repair", "vertical lines on the screen", "Wang",
                  "completed", 120, Some(110), Some("panel replaced, tested")),
    ServiceRecord(FormatRecordId(2), SN(3), "CUST002", "2024-03-20T14:30",
                  "system upgrade", "operating system upgrade", "Li",
                  "scheduled", 60, None, None) >>

\* for x in data: self.<dict>[x[<key field>]] = Model(**x), with keys[i] the
\* key field of data[i]
RECURSIVE LoadDict(_, _, _)
LoadDict(d, keys, data) ==
    IF data = <<>> THEN d
    ELSE LoadDict(DictSet(d, Head(keys), Head(data)), Tail(keys), Tail(data))

\* self.customers after _initialize_sample_data
SeedCustomers ==
    LoadDict(<<>>,
             [i \in 1..Len(customers_data) |-> customers_data[i].customer_id],
             customers_data)

\* self.products after _initialize_sample_data
SeedProducts ==
    LoadDict(<<>>,
             [i \in 1..Len(products_data) |-> products_data[i].serial_number],
             products_data)

\* self.service_records after _initialize_sample_data
SeedServiceRecords ==
    LoadDict(<<>>,
             [i \in 1..Len(service_records_data) |-> service_records_data[i].record_id],
             service_records_data)

\* request / response slot when no request is being handled
NoRequest == [op |-> "none"]

NoResponse == [status_code |-> 0]

\* a client that has sent nothing yet
NotInFlight ==
    [pc |-> "idle", request |-> NoRequest, response |-> NoResponse,
     before |-> <<>>]

\* crm_data = CRMData()
Init ==
    /\ customers = SeedCustomers
    /\ products = SeedProducts
    /\ service_records = SeedServiceRecords
    /\ request = NoRequest
    /\ response = NoResponse
    /\ records_before = <<>>
    /\ inflight = [c \in Clients |-> NotInFlight]

----------------------------------------------------------------------------
(* Responses *)

\* raise HTTPException(status_code=..., detail=...)
HTTPException(code, detail) == [status_code |-> code, detail |-> detail]

\* a handler's return value, serialised with status 200
Ok(body) == [status_code |-> 200, body |-> body]

\* get_current_user: the identity provider answered idp_status
get_current_user(idp_status) ==
    IF idp_status # 200 THEN Some(HTTPException(400, "authentication failed"))
    ELSE None

----------------------------------------------------------------------------
(* The handlers' computations *)

\* mutant: only the first product of the customer is returned
Purchases_FirstOnly(prods, customer_id) ==
    LET Owned(product) == product.customer_id = customer_id
        all == SelectSeq(DictValues(prods), Owned)
    IN  IF all = <<>> THEN <<>> ELSE <<Head(all)>>

\* [product for product in crm_data.products.values()
\*  if product.customer_id == customer_id]
Purchases(prods, customer_id) ==
    LET Owned(product) == product.customer_id = customer_id
    IN SelectSeq(DictValues(prods), Owned)

WarrantyWindowDays == 30

\* mutant: the window excludes its last day
WarrantyStatusText_Exclusive(warranty_end_date, current_date) ==
    IF DateLt(warranty_end_date, current_date) THEN "expired"
    ELSE IF DaysBetween(warranty_end_date, current_date) < WarrantyWindowDays
         THEN "expiring soon"
         ELSE "valid"

\* the status text of query_warranty
WarrantyStatusText(warranty_end_date, current_date) ==
    IF DateLt(warranty_end_date, current_date) THEN "expired"
    ELSE IF DaysBetween(warranty_end_date, current_date) <= WarrantyWindowDays
         THEN "expiring soon"
         ELSE "valid"

\* mutant: the customer's email is not verified
WarrantyLookup_NoEmailCheck(custs, prods, query, current_date) ==
    LET product == DictGet(prods, query.serial_number)
    IN  IF product = None THEN HTTPException(404, "Product not found")
        ELSE
        LET customer == DictGet(custs, product[1].customer_id)
        IN  IF customer = None THEN HTTPException(404, "Customer not found")
            ELSE Ok([product_name |-> product[1].product_name,
                     serial_number |-> product[1].serial_number,
                     customer_name |-> customer[1].name,
                     purchase_date |-> product[1].purchase_date,
                     warranty_end_date |-> product[1].warranty_end_date,
                     warranty_type |-> product[1].warranty_type,
                     status_text |-> WarrantyStatusText(
                                         product[1].warranty_end_date, current_date)])

\* the body of query_warranty, after the dependencies
WarrantyLookup(custs, prods, query, current_date) ==
    LET product == DictGet(prods, query.serial_number)
    IN  IF product = None THEN HTTPException(404, "Product not found")
        ELSE
        LET customer == DictGet(custs, product[1].customer_id)
        IN  IF /\ query.customer_email # None
               /\ query.customer_email[1] # ""
               /\ (customer = None \/ customer[1].email # query.customer_email[1])
            THEN HTTPException(403, "Customer email verification failed")
            ELSE IF customer = None THEN HTTPException(404, "Customer not found")
            ELSE Ok([product_name |-> product[1].product_name,
                     serial_number |-> product[1].serial_number,
                     customer_name |-> customer[1].name,
                     purchase_date |-> product[1].purchase_date,
                     warranty_end_date |-> product[1].warranty_end_date,
                     warranty_type |-> product[1].warranty_type,
                     status_text |-> WarrantyStatusText(
                                         product[1].warranty_end_date, current_date)])

\* mutant: the new record's actual_duration defaults to the estimate
NewServiceRecord_DurationDefault(record_id, product, record) ==
    ServiceRecord(record_id, record.serial_number, product.customer_id,
                  record.service_date, record.service_type, record.description,
                  record.technician, "scheduled", record.estimated_duration,
                  Some(record.estimated_duration), None)

\* the ServiceRecord that create_service_record builds
NewServiceRecord(record_id, product, record) ==
    ServiceRecord(record_id, record.serial_number, product.customer_id,
                  record.service_date, record.service_type, record.description,
                  record.technician, "scheduled", record.estimated_duration,
                  None, None)

\* mutant: the record is inserted before the product is checked
CreateServiceRecord_InsertFirst(prods, records, record) ==
    LET product == DictGet(prods, record.serial_number)
        record_id == GenRecordId(records)
        owner == IF product = None THEN "" ELSE product[1].customer_id
        service_record ==
            ServiceRecord(record_id, record.serial_number, owner,
                          record.service_date, record.service_type,
                          record.description, record.technician, "scheduled",
                          record.estimated_duration, None, None)
        inserted == DictSet(records, record_id, service_record)
    IN  IF product = None
        THEN [response |-> HTTPException(404, "Product not found"),
              service_records |-> inserted]
        ELSE [response |-> Ok(service_record), service_records |-> inserted]

\* the body of create_service_record, after the dependencies: the response
\* and the service-record collection it leaves
CreateServiceRecord(prods, records, record) ==
    LET product == DictGet(prods, record.serial_number)
        record_id == GenRecordId(records)
        service_record == NewServiceRecord(record_id, product[1], record)
    IN  IF product = None
        THEN [response |-> HTTPException(404, "Product not found"),
              service_records |-> records]
        ELSE [response |-> Ok(service_record),
              service_records |-> DictSet(records, record_id, service_record)]

\* the filter loop of get_service_records
RecordMatches(record, serial_number, customer_id, status) ==
    /\ ~(Truthy(serial_number, <<>>) /\ record.serial_number # serial_number[1])
    /\ ~(Truthy(customer_id, "") /\ record.customer_id # customer_id[1])
    /\ ~(Truthy(status, "") /\ record.status # status[1])

FilterRecords(records, serial_number, customer_id, status) ==
    LET Keep(record) == RecordMatches(record, serial_number, customer_id, status)
    IN SelectSeq(DictValues(records), Keep)

\* mutant: the fields are tested for truth, not against None, so a supplied
\* actual_duration of 0 or empty notes are skipped
ApplyUpdate_Truthy(record, update) ==
    [record EXCEPT
        !.service_date = IF Truthy(update.service_date, "")
                         THEN update.service_date[1] ELSE @,
        !.status = IF Truthy(update.status, "") THEN update.status[1] ELSE @,
        !.actual_duration = IF Truthy(update.actual_duration, 0)
                            THEN update.actual_duration ELSE @,
        !.notes = IF Truthy(update.notes, "") THEN update.notes ELSE @]

\* mutant: the update replaces the record by one built from the request body,
\* keeping only its identity
ApplyUpdate_Rebuild(record, update) ==
    ServiceRecord(record.record_id, record.serial_number, record.customer_id,
                  IF update.service_date # None
                  THEN update.service_date[1] ELSE record.service_date,
                  "", "", "",
                  IF update.status # None THEN update.status[1] ELSE record.status,
                  0,
                  IF update.actual_duration # None
                  THEN update.actual_duration ELSE record.actual_duration,
                  IF update.notes # None THEN update.notes ELSE record.notes)

\* mutant: a status is only taken by a record that is still scheduled
ApplyUpdate_ForwardOnly(record, update) ==
    [record EXCEPT
        !.service_date = IF update.service_date # None
                         THEN update.service_date[1] ELSE @,
        !.status = IF update.status # None /\ @ = "scheduled"
                   THEN update.status[1] ELSE @,
        !.actual_duration = IF update.actual_duration # None
                            THEN update.actual_duration ELSE @,
        !.notes = IF update.notes # None THEN update.notes ELSE @]

\* mutant: a supplied actual_duration is added to the one already recorded
ApplyUpdate_AddDuration(record, update) ==
    [record EXCEPT
        !.service_date = IF update.service_date # None
                         THEN update.service_date[1] ELSE @,
        !.status = IF update.status # None THEN update.status[1] ELSE @,
        !.actual_duration = IF update.actual_duration # None
                            THEN (IF @ = None THEN update.actual_duration
                                  ELSE Some(@[1] + update.actual_duration[1]))
                            ELSE @,
        !.notes = IF update.notes # None THEN update.notes ELSE @]

\* mutant: every field of the body is assigned, None included where the
\* record's field is optional
ApplyUpdate_AssignAll(record, update) ==
    [record EXCEPT
        !.service_date = IF update.service_date # None
                         THEN update.service_date[1] ELSE @,
        !.status = IF update.status # None THEN update.status[1] ELSE @,
        !.actual_duration = update.actual_duration,
        !.notes = update.notes]

\* the field assignments of update_service_record
ApplyUpdate(record, update) ==
    [record EXCEPT
        !.service_date = IF update.service_date # None
                         THEN update.service_date[1] ELSE @,
        !.status = IF update.status # None THEN update.status[1] ELSE @,
        !.actual_duration = IF update.actual_duration # None
                            THEN update.actual_duration ELSE @,
        !.notes = IF update.notes # None THEN update.notes ELSE @]

\* the body of update_service_record, after the dependencies; the record is
\* changed in place, so it keeps its key and its position
UpdateServiceRecord(records, record_id, update) ==
    LET record == DictGet(records, record_id)
        updated == ApplyUpdate(record[1], update)
    IN  IF record = None
        THEN [response |-> HTTPException(404, "Service record not found"),
              service_records |-> records]
        ELSE [response |-> Ok(updated),
              service_records |-> DictSet(records, record_id, updated)]

----------------------------------------------------------------------------
(* The requests the model sends *)

\* status codes the identity provider answers with
IdpStatuses == {200, 401}

UnknownSerial == <<"S", "N", "9", "9", "9", "9", "9", "9", "9", "9">>

CustomerIdInputs == {"CUST001", "CUST003", "CUST999"}

\* serial numbers of a warranty query: two products, an unknown serial, an
\* unknown serial with a trailing newline, and one that fails the pattern
WarrantySerialInputs ==
    {SN(2), SN(3), UnknownSerial, UnknownSerial \o <<"\n">>, <<"S", "N", "1">>}

\* customer_email as the handler receives it: the owner of SN20240002, the
\* same address in another case, or none
EmailInputs ==
    {None, Some("zhang.ming@example.com"), Some("Zhang.Ming@example.com")}

\* values of date.today(): around the warranty ends 2024-08-15 and 2025-01-20
TodayInputs ==
    {<<2024, 7, 15>>, <<2024, 7, 16>>, <<2024, 8, 15>>, <<2024, 8, 16>>,
     <<2024, 12, 20>>, <<2024, 12, 21>>}

CreateSerialInputs == {SN(1), UnknownSerial}

EstimatedDurationInputs == {30, 0}

CreateInputs ==
    [serial_number : CreateSerialInputs,
     service_type : {"battery replacement"},
     description : {"battery drains quickly"},
     technician : {"Zhao"},
     service_date : {"2024-06-01T09:00"},
     estimated_duration : EstimatedDurationInputs]

RecordIdInputs == {FormatRecordId(2), <<"S", "R", "V", "9", "9", "9">>}

UpdateInputs ==
    [service_date : {None, Some("2024-07-01T16:00")},
     status : {None} \cup {Some(st) : st \in ServiceStatus},
     actual_duration : {None, Some(0), Some(45)},
     notes : {None, Some("rescheduled")}]

ListSerialInputs == {None, Some(SN(1)), Some(<<>>)}

ListCustomerInputs == {None, Some("CUST001"), Some("CUST002")}

ListStatusInputs == {None, Some("scheduled")}

----------------------------------------------------------------------------
(* The handlers *)

Idle == request = NoRequest

\* GET /customers/{customer_id}
get_customer_by_id(customer_id, idp_status) ==
    /\ Idle
    /\ UNCHANGED inflight
    /\ request' = [op |-> "get_customer_by_id", customer_id |-> customer_id,
                   idp_status |-> idp_status]
    /\ response' =
         LET user == get_current_user(idp_status)
             customer == DictGet(customers, customer_id)
         IN  IF user # None THEN user[1]
             ELSE IF customer = None THEN HTTPException(404, "Customer not found")
             ELSE Ok(customer[1])
    /\ records_before' = service_records
    /\ UNCHANGED store

\* GET /customers/{customer_id}/purchases
get_customer_purchases(customer_id, idp_status) ==
    /\ Idle
    /\ UNCHANGED inflight
    /\ request' = [op |-> "get_customer_purchases", customer_id |-> customer_id,
                   idp_status |-> idp_status]
    /\ response' =
         LET user == get_current_user(idp_status)
             purchases == Purchases(products, customer_id)
         IN  IF user # None THEN user[1]
             ELSE IF purchases = <<>>
                  THEN HTTPException(404, "No purchases found for this customer")
             ELSE Ok(purchases)
    /\ records_before' = service_records
    /\ UNCHANGED store

\* mutant: the request body is validated before the identity check
query_warranty_ValidateFirst(query, current_date, idp_status) ==
    /\ request = NoRequest
    /\ UNCHANGED inflight
    /\ request' = [op |-> "query_warranty", query |-> query,
                   today |-> current_date, idp_status |-> idp_status]
    /\ response' =
         LET user == get_current_user(idp_status)
         IN  IF ~validate_serial_number(query.serial_number)
             THEN HTTPException(422, "Serial number must be 8-20 alphanumeric characters")
             ELSE IF user # None THEN user[1]
             ELSE WarrantyLookup(customers, products, query, current_date)
    /\ records_before' = service_records
    /\ UNCHANGED store

\* POST /warranty/query
query_warranty(query, current_date, idp_status) ==
    /\ Idle
    /\ UNCHANGED inflight
    /\ request' = [op |-> "query_warranty", query |-> query,
                   today |-> current_date, idp_status |-> idp_status]
    /\ response' =
         LET user == get_current_user(idp_status)
         IN  IF user # None THEN user[1]
             ELSE IF ~validate_serial_number(query.serial_number)
                  THEN HTTPException(422, "Serial number must be 8-20 alphanumeric characters")
             ELSE WarrantyLookup(customers, products, query, current_date)
    /\ records_before' = service_records
    /\ UNCHANGED store

\* POST /service/records
create_service_record(record, idp_status) ==
    LET user == get_current_user(idp_status)
        done == CreateServiceRecord(products, service_records, record)
    IN  /\ Idle
        /\ UNCHANGED inflight
        /\ request' = [op |-> "create_service_record", record |-> record,
                       idp_status |-> idp_status]
        /\ records_before' = service_records
        /\ IF user # None
           THEN /\ response' = user[1]
                /\ UNCHANGED store
           ELSE /\ Len(done.service_records) <= MaxRecords
                /\ response' = done.response
                /\ service_records' = done.service_records
                /\ UNCHANGED <<customers, products>>

\* GET /service/records
get_service_records(serial_number, customer_id, status, idp_status) ==
    /\ Idle
    /\ UNCHANGED inflight
    /\ request' = [op |-> "get_service_records", serial_number |-> serial_number,
                   customer_id |-> customer_id, status |-> status,
                   idp_status |-> idp_status]
    /\ response' =
         LET user == get_current_user(idp_status)
         IN  IF user # None THEN user[1]
             ELSE Ok(FilterRecords(service_records, serial_number, customer_id, status))
    /\ records_before' = service_records
    /\ UNCHANGED store

\* PUT /service/records/{record_id}
update_service_record(record_id, update, idp_status) ==
    LET user == get_current_user(idp_status)
        done == UpdateServiceRecord(service_records, record_id, update)
    IN  /\ Idle
        /\ UNCHANGED inflight
        /\ request' = [op |-> "update_service_record", record_id |-> record_id,
                       update |-> update, idp_status |-> idp_status]
        /\ records_before' = service_records
        /\ IF user # None
           THEN /\ response' = user[1]
                /\ UNCHANGED store
           ELSE /\ response' = done.response
                /\ service_records' = done.service_records
                /\ UNCHANGED <<customers, products>>

\* GET /v1/ping
ping_handler ==
    /\ Idle
    /\ UNCHANGED inflight
    /\ request' = [op |-> "ping_handler"]
    /\ response' = Ok("Ping healthcheck")
    /\ records_before' = service_records
    /\ UNCHANGED store

\* the response goes out to the client; the next request can be handled
Respond ==
    /\ ~Idle
    /\ UNCHANGED inflight
    /\ request' = NoRequest
    /\ response' = NoResponse
    /\ records_before' = <<>>
    /\ UNCHANGED store

Next ==
    \/ \E c \in CustomerIdInputs, a \in IdpStatuses : get_customer_by_id(c, a)
    \/ \E c \in CustomerIdInputs, a \in IdpStatuses : get_customer_purchases(c, a)
    \/ \E sn \in WarrantySerialInputs, e \in EmailInputs, t \in TodayInputs,
          a \in IdpStatuses :
          query_warranty([serial_number |-> sn, customer_email |-> e], t, a)
    \/ \E r \in CreateInputs, a \in IdpStatuses : create_service_record(r, a)
    \/ \E sn \in ListSerialInputs, c \in ListCustomerInputs, st \in ListStatusInputs,
          a \in IdpStatuses : get_service_records(sn, c, st, a)
    \/ \E id \in RecordIdInputs, u \in UpdateInputs, a \in IdpStatuses :
          update_service_record(id, u, a)
    \/ ping_handler
    \/ Respond

Spec == Init /\ [][Next]_vars

----------------------------------------------------------------------------
(* Concurrent requests *)
(* The handlers are coroutines on one event loop, which switches between   *)
(* requests only where a coroutine awaits. The framework awaits while it   *)
(* reads a request and while it resolves the dependencies; the bodies of    *)
(* create_service_record and update_service_record hold no await. A        *)
(* request is therefore handled in three steps: it is received, its        *)
(* identity is checked, and the handler body runs. Every client sends one  *)
(* request and keeps its response.                                         *)

ConcurrentCreateInputs == {r \in CreateInputs : r.estimated_duration = 30}

ConcurrentUpdateInputs ==
    {[service_date |-> None, status |-> Some("completed"),
      actual_duration |-> Some(45), notes |-> None],
     [service_date |-> Some("2024-07-01T16:00"), status |-> Some("cancelled"),
      actual_duration |-> None, notes |-> Some("rescheduled")]}

ConcurrentRequests ==
    {[op |-> "create_service_record", record |-> r, idp_status |-> a] :
        r \in ConcurrentCreateInputs, a \in IdpStatuses}
    \cup
    {[op |-> "update_service_record", record_id |-> FormatRecordId(2),
      update |-> u, idp_status |-> a] :
        u \in ConcurrentUpdateInputs, a \in IdpStatuses}

\* the server has read the request of client c
Receive(c, req) ==
    /\ inflight[c].pc = "idle"
    /\ inflight' = [inflight EXCEPT ![c].pc = "received", ![c].request = req]
    /\ UNCHANGED <<store, request, response, records_before>>

\* Depends(get_current_user), resolved before the handler is called
Authenticate(c) ==
    LET user == get_current_user(inflight[c].request.idp_status)
    IN  /\ inflight[c].pc = "received"
        /\ inflight' = IF user # None
                       THEN [inflight EXCEPT ![c].pc = "done",
                                             ![c].response = user[1]]
                       ELSE [inflight EXCEPT ![c].pc = "authed"]
        /\ UNCHANGED <<store, request, response, records_before>>

\* mutant: the handler gives up control between reading the size of the
\* collection and inserting the record it numbered from it
CreateStep_Yielding(c) ==
    LET seen == inflight[c].before
        product == DictGet(products, inflight[c].request.record.serial_number)
        record_id == GenRecordId(seen)
        service_record == NewServiceRecord(record_id, product[1],
                                           inflight[c].request.record)
    IN  /\ inflight[c].pc = "authed"
        /\ inflight[c].request.op = "create_service_record"
        /\ IF seen = <<>>
           THEN /\ inflight' = [inflight EXCEPT ![c].before = service_records]
                /\ UNCHANGED service_records
           ELSE IF product = None
           THEN /\ inflight' = [inflight EXCEPT
                                  ![c].pc = "done",
                                  ![c].response =
                                      HTTPException(404, "Product not found")]
                /\ UNCHANGED service_records
           ELSE /\ inflight' = [inflight EXCEPT
                                  ![c].pc = "done",
                                  ![c].response = Ok(service_record)]
                /\ service_records' =
                     DictSet(service_records, record_id, service_record)
        /\ UNCHANGED <<customers, products, request, response, records_before>>

\* the body of create_service_record, run without giving up control;
\* `before` keeps the collection as the body found it
CreateStep(c) ==
    LET done == CreateServiceRecord(products, service_records,
                                    inflight[c].request.record)
    IN  /\ inflight[c].pc = "authed"
        /\ inflight[c].request.op = "create_service_record"
        /\ inflight' = [inflight EXCEPT ![c].pc = "done",
                                        ![c].response = done.response,
                                        ![c].before = service_records]
        /\ service_records' = done.service_records
        /\ UNCHANGED <<customers, products, request, response, records_before>>

\* the body of update_service_record, run without giving up control
UpdateStep(c) ==
    LET done == UpdateServiceRecord(service_records, inflight[c].request.record_id,
                                    inflight[c].request.update)
    IN  /\ inflight[c].pc = "authed"
        /\ inflight[c].request.op = "update_service_record"
        /\ inflight' = [inflight EXCEPT ![c].pc = "done",
                                        ![c].response = done.response,
                                        ![c].before = service_records]
        /\ service_records' = done.service_records
        /\ UNCHANGED <<customers, products, request, response, records_before>>

NextConcurrent ==
    \E c \in Clients :
        \/ \E req \in ConcurrentRequests : Receive(c, req)
        \/ Authenticate(c)
        \/ CreateStep(c)
        \/ UpdateStep(c)

SpecConcurrent == Init /\ [][NextConcurrent]_vars

----------------------------------------------------------------------------
(* Properties *)

\* the handler of operation `op` ran: the identity check let the request in
Handled(op) == request.op = op /\ request.idp_status = 200

\* the record stored under key k
Stored(records, k) == records[CHOOSE i \in 1..Len(records) : records[i].key = k].val

\* C1: for every serial_number that is a key of the product collection,
\* create_service_record succeeds (200) and returns a record that is also
\* stored under its record_id, with status "scheduled", the customer_id of
\* that product, actual_duration and notes None, and serial_number,
\* service_type, description, technician, service_date and estimated_duration
\* as in the request.
C1_CreateStoresScheduledRecord ==
    (/\ Handled("create_service_record")
     /\ request.record.serial_number \in DictKeys(products))
    => /\ response.status_code = 200
       /\ response.body.status = "scheduled"
       /\ \E i \in 1..Len(products) :
            /\ products[i].key = request.record.serial_number
            /\ response.body.customer_id = products[i].val.customer_id
       /\ response.body.actual_duration = None
       /\ response.body.notes = None
       /\ response.body.serial_number = request.record.serial_number
       /\ response.body.service_type = request.record.service_type
       /\ response.body.description = request.record.description
       /\ response.body.technician = request.record.technician
       /\ response.body.service_date = request.record.service_date
       /\ response.body.estimated_duration = request.record.estimated_duration
       /\ response.body.record_id \in DictKeys(service_records)
       /\ Stored(service_records, response.body.record_id) = response.body

\* C1 witness: a record created for SN20240001 came back scheduled and owned
\* by CUST001
C1_Witness ==
    /\ Handled("create_service_record")
    /\ request.record.serial_number = SN(1)
    /\ response.status_code = 200
    /\ response.body.customer_id = "CUST001"
    /\ response.body.status = "scheduled"
    /\ Len(service_records) = Len(records_before) + 1

\* "SRV" and the three decimal digits of n (n below 1000)
ExpectedRecordId(n) ==
    <<"S", "R", "V", DigitChar[((n \div 100) % 10) + 1],
      DigitChar[((n \div 10) % 10) + 1], DigitChar[(n % 10) + 1]>>

C3_NotFoundLeavesStoreUnchanged ==
    /\ (/\ Handled("create_service_record")
        /\ request.record.serial_number \notin DictKeys(products))
       => response.status_code = 404
    /\ (/\ Handled("update_service_record")
        /\ request.record_id \notin DictKeys(records_before))
       => response.status_code = 404
    /\ (/\ request.op \in {"create_service_record", "update_service_record"}
        /\ response.status_code = 404)
       => /\ service_records = records_before
          /\ customers = SeedCustomers
          /\ products = SeedProducts

\* C3 witness: a create for an unknown serial number was refused on a store
\* that already holds a created record
C3_Witness ==
    /\ Handled("create_service_record")
    /\ request.record.serial_number = UnknownSerial
    /\ response.status_code = 404
    /\ Len(service_records) = 3
    /\ service_records = records_before

\* the fields of a service record that no operation may change
Identity(r) ==
    <<r.record_id, r.serial_number, r.customer_id, r.service_type,
      r.description, r.technician, r.estimated_duration>>

\* C4: update_service_record on an existing record_id succeeds, and of
\* service_date, status, actual_duration and notes each supplied (non-None)
\* field takes the supplied value and each unsupplied one keeps its prior
\* value; the record's other fields, its key and place, and every other
\* record are unchanged, and the updated record is the one returned.
C4_UpdateAppliesExactlySuppliedFields ==
    (/\ Handled("update_service_record")
     /\ request.record_id \in DictKeys(records_before))
    => LET old == Stored(records_before, request.record_id)
           u == request.update
       IN  /\ response.status_code = 200
           /\ request.record_id \in DictKeys(service_records)
           /\ response.body = Stored(service_records, request.record_id)
           /\ response.body.service_date =
                (IF u.service_date = None THEN old.service_date ELSE u.service_date[1])
           /\ response.body.status =
                (IF u.status = None THEN old.status ELSE u.status[1])
           /\ response.body.actual_duration =
                (IF u.actual_duration = None THEN old.actual_duration
                 ELSE Some(u.actual_duration[1]))
           /\ response.body.notes =
                (IF u.notes = None THEN old.notes ELSE Some(u.notes[1]))
           /\ Identity(response.body) = Identity(old)
           /\ Len(service_records) = Len(records_before)
           /\ \A i \in 1..Len(records_before) :
                /\ service_records[i].key = records_before[i].key
                /\ records_before[i].key # request.record_id
                   => service_records[i] = records_before[i]

\* C4 witness: an update with only status = completed on a scheduled record
\* whose date, duration and notes had been set left those three as they were
C4_Witness ==
    /\ Handled("update_service_record")
    /\ response.status_code = 200
    /\ request.update = [service_date |-> None, status |-> Some("completed"),
                         actual_duration |-> None, notes |-> None]
    /\ Stored(records_before, request.record_id).status = "scheduled"
    /\ response.body.status = "completed"
    /\ response.body.service_date = "2024-07-01T16:00"
    /\ response.body.actual_duration = Some(0)
    /\ response.body.notes = Some("rescheduled")

\* a record matches a filter that is supplied (not None) only by equality
MatchesSupplied(r, serial_number, customer_id, status) ==
    /\ serial_number # None => r.serial_number = serial_number[1]
    /\ customer_id # None => r.customer_id = customer_id[1]
    /\ status # None => r.status = status[1]

\* C5: list_service_records answers 200 with exactly the stored records that
\* match every supplied filter among serial_number, customer_id and status,
\* an omitted filter matching every record; with no match the list is empty.
C5_ListMatchesEverySuppliedFilter ==
    Handled("get_service_records")
    => /\ response.status_code = 200
       /\ {response.body[i] : i \in 1..Len(response.body)} =
            {service_records[i].val : i \in
               {j \in 1..Len(service_records) :
                  MatchesSupplied(service_records[j].val, request.serial_number,
                                  request.customer_id, request.status)}}

\* C6: for an existing product and customer, status_text is "expired" when
\* warranty_end_date is before today, "expiring soon" when the end is 0 to 30
\* days after today (both included), and "valid" when it is 31 days or more
\* after today.
C6_WarrantyBuckets ==
    (Handled("query_warranty") /\ response.status_code = 200)
    => LET days == ToOrdinal(response.body.warranty_end_date)
                     - ToOrdinal(request.today)
       IN  /\ response.body.warranty_end_date =
                Stored(products, request.query.serial_number).warranty_end_date
           /\ days < 0 => response.body.status_text = "expired"
           /\ (0 <= days /\ days <= 30) => response.body.status_text = "expiring soon"
           /\ days >= 31 => response.body.status_text = "valid"
           /\ response.body.status_text \in {"expired", "expiring soon", "valid"}

\* C6 witness: exactly 30 days before a warranty end in the next year the
\* warranty is expiring soon
C6_Witness ==
    /\ Handled("query_warranty")
    /\ response.status_code = 200
    /\ request.query.serial_number = SN(3)
    /\ request.today = <<2024, 12, 21>>
    /\ response.body.warranty_end_date = <<2025, 1, 20>>
    /\ response.body.status_text = "expiring soon"

\* the customer that owns product p
Owner(p) == Stored(customers, p.customer_id)

\* C7: for a serial_number that passes the pattern, query_warranty answers
\* 404 when the serial is no product key, with or without customer_email; 403
\* when the product exists and a customer_email is given that differs from
\* the owner's email (compared exactly, case included); and 200 with the
\* owner's name when no customer_email is given or it equals the owner's.
C7_WarrantyErrorOrder ==
    (Handled("query_warranty") /\ validate_serial_number(request.query.serial_number))
    => LET sn == request.query.serial_number
           email == request.query.customer_email
       IN  IF sn \notin DictKeys(products) THEN response.status_code = 404
           ELSE IF email # None /\ email[1] # Owner(Stored(products, sn)).email
                THEN response.status_code = 403
                ELSE /\ response.status_code = 200
                     /\ response.body.customer_name = Owner(Stored(products, sn)).name

\* C7 witness: the owner's address in another case is refused for an
\* existing product
C7_Witness ==
    /\ Handled("query_warranty")
    /\ request.query.serial_number = SN(2)
    /\ request.query.customer_email = Some("Zhang.Ming@example.com")
    /\ Owner(Stored(products, SN(2))).email = "zhang.ming@example.com"
    /\ response.status_code = 403

\* C8: get_customer_purchases answers 404 exactly when no product has the
\* given customer_id, and otherwise 200 with exactly the products of that
\* customer, each once, in the order of the product collection;
\* list_service_records answers 200 also when nothing matches.
C8_PurchasesNotFoundWhenEmpty ==
    /\ Handled("get_customer_purchases")
       => LET owned == {i \in 1..Len(products) :
                          products[i].val.customer_id = request.customer_id}
          IN  IF owned = {} THEN response.status_code = 404
              ELSE /\ response.status_code = 200
                   /\ Len(response.body) = Cardinality(owned)
                   /\ \A k \in 1..Len(response.body) :
                        \E i \in owned :
                          /\ response.body[k] = products[i].val
                          /\ Cardinality({j \in owned : j < i}) = k - 1
    /\ Handled("get_service_records") => response.status_code = 200

\* C8 witness: a customer id that owns nothing gets 404
C8_Witness ==
    /\ Handled("get_customer_purchases")
    /\ request.customer_id = "CUST999"
    /\ response.status_code = 404

ReadOps ==
    {"get_customer_by_id", "get_customer_purchases", "query_warranty",
     "get_service_records"}

\* C9: in every step, the customer and product collections stay as they are;
\* every service record present stays, under its key and in its place, with
\* its record_id, serial_number, customer_id, service_type, description,
\* technician and estimated_duration; a step that changes a present record is
\* an update_service_record, which adds no record; and the read operations
\* leave all three collections unchanged.
C9_RecordsPersistAndOnlyUpdateMutates ==
    [][/\ customers' = customers
       /\ products' = products
       /\ Len(service_records') >= Len(service_records)
       /\ \A i \in 1..Len(service_records) :
            /\ service_records'[i].key = service_records[i].key
            /\ Identity(service_records'[i].val) = Identity(service_records[i].val)
            /\ service_records'[i] # service_records[i]
               => /\ request'.op = "update_service_record"
                  /\ Len(service_records') = Len(service_records)
       /\ request'.op \in ReadOps => service_records' = service_records]_vars

\* C9 witness: an update changed a seeded record in a store that also holds
\* a created one
C9_Witness ==
    /\ Handled("update_service_record")
    /\ response.status_code = 200
    /\ Len(service_records) = 3
    /\ service_records # records_before
    /\ service_records[3] = records_before[3]

\* an update body that supplies only the status
OnlyStatus(t) ==
    [service_date |-> None, status |-> Some(t), actual_duration |-> None,
     notes |-> None]

\* C10: an update that supplies status = t on an existing record succeeds and
\* leaves the record with status t whatever its status was, and from every
\* store, for every record and every status t, such an update is possible.
C10_AnyStatusTransition ==
    /\ (/\ Handled("update_service_record")
        /\ request.record_id \in DictKeys(records_before)
        /\ request.update.status # None)
       => /\ response.status_code = 200
          /\ Stored(service_records, request.record_id).status
               = request.update.status[1]
    /\ Idle
       => \A id \in DictKeys(service_records) : \A t \in ServiceStatus :
            ENABLED (/\ update_service_record(id, OnlyStatus(t), 200)
                     /\ response'.status_code = 200
                     /\ Stored(service_records', id).status = t)

\* C10 witness: a completed record was set back to scheduled
C10_Witness ==
    /\ Handled("update_service_record")
    /\ response.status_code = 200
    /\ request.update.status = Some("scheduled")
    /\ Stored(records_before, request.record_id).status = "completed"
    /\ Stored(service_records, request.record_id).status = "scheduled"

\* C11: update_service_record is idempotent: in the state an update has
\* left, whether it succeeded or failed with 404, running the same update
\* (same record_id, same body) once more leaves the service-record collection
\* as it is and returns the same response.
C11_UpdateIdempotent ==
    Handled("update_service_record")
    => LET again == UpdateServiceRecord(service_records, request.record_id,
                                        request.update)
       IN  /\ again.service_records = service_records
           /\ again.response = response

\* C11 witness: an update that sets every field was applied to a record that
\* earlier updates had already brought to that state, and changed nothing
C11_Witness ==
    /\ Handled("update_service_record")
    /\ response.status_code = 200
    /\ request.update = [service_date |-> Some("2024-07-01T16:00"),
                         status |-> Some("cancelled"),
                         actual_duration |-> Some(45),
                         notes |-> Some("rescheduled")]
    /\ service_records = records_before
    /\ service_records # SeedServiceRecords

\* C13: every stored service record has an estimated_duration greater than 0.
C13_EstimatedDurationPositive ==
    \A i \in 1..Len(service_records) :
        service_records[i].val.estimated_duration > 0

\* C15: an update whose body holds None (null or absent) for service_date,
\* status, actual_duration or notes leaves that field of the record as it
\* was, and in every step a record whose actual_duration or notes is not None
\* keeps a value that is not None.
C15_NullNeverClearsAField ==
    [][/\ \A i \in 1..Len(service_records) :
            /\ service_records[i].val.actual_duration # None
               => service_records'[i].val.actual_duration # None
            /\ service_records[i].val.notes # None
               => service_records'[i].val.notes # None
       /\ (/\ request.op = "none"
           /\ request'.op = "update_service_record"
           /\ response'.status_code = 200)
          => LET old == Stored(service_records, request'.record_id)
                 new == Stored(service_records', request'.record_id)
                 u == request'.update
             IN  /\ u.service_date = None => new.service_date = old.service_date
                 /\ u.status = None => new.status = old.status
                 /\ u.actual_duration = None
                    => new.actual_duration = old.actual_duration
                 /\ u.notes = None => new.notes = old.notes]_vars

\* C15 witness: an update with None for actual_duration and notes was applied
\* to a record that held both, and it still holds both
C15_Witness ==
    /\ Handled("update_service_record")
    /\ response.status_code = 200
    /\ request.update.actual_duration = None
    /\ request.update.notes = None
    /\ Stored(records_before, request.record_id).actual_duration = Some(45)
    /\ Stored(records_before, request.record_id).notes = Some("rescheduled")
    /\ response.body.actual_duration = Some(45)
    /\ response.body.notes = Some("rescheduled")
    /\ Stored(service_records, request.record_id) = response.body

DoneOk(c, op) ==
    /\ inflight[c].pc = "done"
    /\ inflight[c].request.op = op
    /\ inflight[c].response.status_code = 200

Created == {c \in Clients : DoneOk(c, "create_service_record")}

Updated == {c \in Clients : DoneOk(c, "update_service_record")}

\* C14: with requests handled concurrently the store step of each handler is
\* atomic: concurrent successful creates are given pairwise distinct
\* record_ids, N of them add exactly N records and each created record stays
\* stored under its id; a successful update returns the whole update applied
\* to the record as it found it, which was the seeded record or the record
\* another update left whole, and the stored record is the seeded one or one
\* an update returned.
C14_StoreStepsAtomic ==
    /\ \A c1, c2 \in Created :
         c1 # c2 => inflight[c1].response.body.record_id
                      # inflight[c2].response.body.record_id
    /\ Len(service_records) = Len(SeedServiceRecords) + Cardinality(Created)
    /\ \A i, j \in 1..Len(service_records) :
         /\ service_records[i].key = service_records[i].val.record_id
         /\ i # j => service_records[i].key # service_records[j].key
    /\ \A c \in Created :
         LET created == inflight[c].response.body
         IN  /\ created.record_id \in DictKeys(service_records)
             /\ created.record_id \notin DictKeys(inflight[c].before)
             /\ Stored(service_records, created.record_id) = created
    /\ \A c \in Updated :
         LET id == inflight[c].request.record_id
             found == Stored(inflight[c].before, id)
         IN  /\ inflight[c].response.body
                  = ApplyUpdate(found, inflight[c].request.update)
             /\ \/ found = Stored(SeedServiceRecords, id)
                \/ \E d \in Updated \ {c} : found = inflight[d].response.body
             /\ \/ Stored(service_records, id) = Stored(SeedServiceRecords, id)
                \/ \E d \in Updated :
                     Stored(service_records, id) = inflight[d].response.body

\* C14 witness: the creates of two clients were both answered 200, one with
\* SRV003 and one with SRV004, and the store holds both
C14_Witness ==
    /\ Cardinality(Created) = 2
    /\ {inflight[c].response.body.record_id : c \in Created}
         = {FormatRecordId(3), FormatRecordId(4)}
    /\ Len(service_records) = Len(SeedServiceRecords) + 2
    /\ \A c \in Created : Len(inflight[c].before) \in {2, 3}

====
